---- MODULE Spec2Model ----
(***************************************************************************)
(* A model of the release-notes service in app.py: the settings and        *)
(* releases collections of the document store, the CRUD handlers, and the  *)
(* generate pipeline (ticket-key processing, ticket fetch, summarizer,     *)
(* classifier and markdown assembler).                                     *)
(*                                                                         *)
(* A Python str is modelled as a sequence of character codes, so that      *)
(* splitting, upper-casing, stripping and lexicographic sorting are        *)
(* computed as the code computes them.  A document (dict) is a function    *)
(* from field names to values; None from find_one is the empty sequence    *)
(* and a found document d is <<d>>.                                        *)
(*                                                                         *)
(* Spec is the service: every handler, with the store reads and the store  *)
(* write of a generate request interleaved with the other handlers.        *)
(* SpecGen is one generate request run on each of a set of stored releases *)
(* and issue trackers.  The collaborators answer with well-formed bodies   *)
(* or fail with a RequestException.                                        *)
(***************************************************************************)
EXTENDS Integers, Sequences, FiniteSets, TLC

\* ------------------------------------------------------------- bounds

\* Longest jiraTickets string enumerated exhaustively for the pipeline.
MaxLen == 4
\* Number of release ids the store ever assigns.
MaxReleases == 2

\* ---------------------------------------------------------- characters

\* Characters matched by \s (and stripped by str.strip()) in the modelled range.
Whitespace == {9, 10, 11, 12, 13, 28, 29, 30, 31, 32, 133, 160}

\* The separator class [,\s\n] of the splitting pattern.
IsSep(c) == c = 44 \/ c \in Whitespace

IsDigit(c) == c >= 48 /\ c <= 57

\* str.upper() on one ASCII character.
UpperChar(c) == IF c >= 97 /\ c <= 122 THEN c - 32 ELSE c

\* str.upper()
Upper(s) == [i \in 1..Len(s) |-> UpperChar(s[i])]

\* Python's ordering of str: lexicographic on code points.
RECURSIVE StrLess(_, _)
StrLess(a, b) ==
    IF b = <<>> THEN FALSE
    ELSE IF a = <<>> THEN TRUE
    ELSE IF Head(a) # Head(b) THEN Head(a) < Head(b)
    ELSE StrLess(Tail(a), Tail(b))

\* str.lstrip() / str.strip() with no argument.
RECURSIVE LStrip(_)
LStrip(s) ==
    IF s # <<>> /\ Head(s) \in Whitespace THEN LStrip(Tail(s)) ELSE s

RECURSIVE RStrip(_)
RStrip(s) ==
    IF s # <<>> /\ s[Len(s)] \in Whitespace
    THEN RStrip(SubSeq(s, 1, Len(s) - 1)) ELSE s

Strip(s) == RStrip(LStrip(s))

\* re.split(r'[,\s\n]+', s): the pieces between maximal separator runs,
\* empty pieces at the ends included.
RECURSIVE ReSplitAcc(_, _, _)
ReSplitAcc(s, cur, prevSep) ==
    IF s = <<>> THEN <<cur>>
    ELSE IF IsSep(Head(s))
         THEN IF prevSep THEN ReSplitAcc(Tail(s), cur, TRUE)
              ELSE <<cur>> \o ReSplitAcc(Tail(s), <<>>, TRUE)
         ELSE ReSplitAcc(Tail(s), Append(cur, Head(s)), FALSE)

ReSplit(s) == ReSplitAcc(s, <<>>, FALSE)

\* set(filter(None, pieces)): the distinct non-empty pieces.
FilterNoneSet(pieces) == {pieces[i] : i \in {j \in 1..Len(pieces) : pieces[j] # <<>>}}

\* sorted(S) for a set of str.
RECURSIVE Sorted(_)
Sorted(S) ==
    IF S = {} THEN <<>>
    ELSE LET m == CHOOSE x \in S : \A y \in S \ {x} : StrLess(x, y)
         IN <<m>> \o Sorted(S \ {m})

\* sorted(list(set(filter(None, re.split(r'[,\s\n]+', raw)))))
TicketKeys(raw) == Sorted(FilterNoneSet(ReSplit(raw)))

\* dict.get(key, default)
Get(doc, key, default) == IF key \in DOMAIN doc THEN doc[key] ELSE default

\* The effect of {'$set': data} on one document.
SetFields(doc, data) ==
    [k \in DOMAIN doc \cup DOMAIN data |->
        IF k \in DOMAIN data THEN data[k] ELSE doc[k]]

\* ------------------------------------------------------ document store

\* update_one({'_id': 'global_settings'}, {'$set': data}, upsert=True) on the
\* settings collection, which holds at most the one global_settings document.
UpsertSettings(coll, data) ==
    IF coll = <<>> THEN <<data>> ELSE <<SetFields(coll[1], data)>>

\* find_one({'_id': id}): <<>> for None, <<doc>> for a document.
FindOne(coll, id) == IF id \in DOMAIN coll THEN <<coll[id]>> ELSE <<>>

\* insert_one(doc) under the store-assigned id.
InsertOne(coll, id, doc) ==
    [k \in DOMAIN coll \cup {id} |-> IF k = id THEN doc ELSE coll[k]]

\* update_one with upsert=True: a missing document is created.
UpdateOneUpsert(coll, id, data) ==
    [k \in DOMAIN coll \cup {id} |->
        IF k \in DOMAIN coll /\ k # id THEN coll[k]
        ELSE IF k \in DOMAIN coll THEN SetFields(coll[k], data) ELSE data]

\* update_one({'_id': id}, {'$set': data}) without upsert.
UpdateOne(coll, id, data) ==
    IF id \in DOMAIN coll THEN [coll EXCEPT ![id] = SetFields(@, data)] ELSE coll

\* delete_one({'_id': id})
DeleteOne(coll, id) == [k \in DOMAIN coll \ {id} |-> coll[k]]

\* The truth value Python gives settings.get(key): a missing key is None.
Truthy(doc, key) == key \in DOMAIN doc /\ doc[key] # <<>>

\* ------------------------------------------------------------ summarizer

\* The inner recurse(nodes) of parse_jira_description: the text leaves in pre-order.
RECURSIVE recurse(_)
recurse(nodes) ==
    IF nodes = <<>> THEN <<>>
    ELSE LET node == Head(nodes)
             own == IF Get(node, "type", "") = "text" /\ "text" \in DOMAIN node
                    THEN <<node["text"]>> ELSE <<>>
             kids == IF "content" \in DOMAIN node THEN recurse(node["content"]) ELSE <<>>
         IN own \o kids \o recurse(Tail(nodes))

\* " ".join(parts)
RECURSIVE JoinSpace(_)
JoinSpace(parts) ==
    IF parts = <<>> THEN <<>>
    ELSE IF Len(parts) = 1 THEN parts[1]
    ELSE parts[1] \o <<32>> \o JoinSpace(Tail(parts))

\* parse_jira_description: a missing description (None) is the empty document.
parse_jira_description(description_field) ==
    IF "content" \notin DOMAIN description_field THEN <<>>
    ELSE JoinSpace(recurse(description_field["content"]))

\* What the generative API can do with one request: fail with a
\* RequestException, or answer with a first text part (absent text is "").
AiError == [err |-> TRUE, text |-> <<>>]
AiOutcomes ==
    {AiError} \cup
    {[err |-> FALSE, text |-> t] : t \in {<<>>, <<32, 10>>, <<32, 83, 117, 109, 10>>}}

\* get_summary_from_ai(title, description, ...): the summary returned and
\* whether requests.post was reached.
get_summary_from_ai(title, description, ai) ==
    IF description = <<>> \/ Strip(description) = <<>>
    THEN [summary |-> title, called |-> FALSE]
    ELSE IF ai.err THEN [summary |-> title, called |-> TRUE]
    ELSE [summary |-> IF ai.text # <<>> THEN Strip(ai.text) ELSE title,
          called |-> TRUE]

\* One entry of the summarizer's call history.
AiEntry(title, description, ai) ==
    LET r == get_summary_from_ai(title, description, ai)
    IN [title |-> title, description |-> description, ai |-> ai,
        summary |-> r.summary, called |-> r.called]

\* ------------------------------------------------------- markdown pieces

\* One line (or block) of the markdown being assembled.
Line(kind, name, ref, text) == [kind |-> kind, name |-> name, ref |-> ref, text |-> text]

Header(name) == Line("header", name, <<>>, <<>>)

Text(name) == Line("text", name, <<>>, <<>>)

Separator == Line("separator", "---", <<>>, <<>>)

\* sorted(list) for a list of str, duplicates kept.
RECURSIVE SortedList(_)
SortedList(seq) ==
    IF seq = <<>> THEN <<>>
    ELSE LET i == CHOOSE j \in 1..Len(seq) :
                    \A k \in 1..Len(seq) : ~StrLess(seq[k], seq[j])
             rest == [k \in 1..(Len(seq) - 1) |-> IF k < i THEN seq[k] ELSE seq[k + 1]]
         IN <<seq[i]>> \o SortedList(rest)

\* sep.join(parts)
RECURSIVE JoinWith(_, _)
JoinWith(parts, sep) ==
    IF parts = <<>> THEN <<>>
    ELSE IF Len(parts) = 1 THEN parts[1]
    ELSE parts[1] \o sep \o JoinWith(Tail(parts), sep)

\* The index just past the maximal run of digits of s that starts at i.
RECURSIVE DigitsEnd(_, _)
DigitsEnd(s, i) ==
    IF i <= Len(s) /\ IsDigit(s[i]) THEN DigitsEnd(s, i + 1) ELSE i

\* Whether (\d+\.\d+\.\d+) matches s at index i, and where the match ends.
VersionEnd(s, i) ==
    LET a == DigitsEnd(s, i)
        b == DigitsEnd(s, a + 1)
        c == DigitsEnd(s, b + 1)
    IN IF /\ a > i /\ a <= Len(s) /\ s[a] = 46
          /\ b > a + 1 /\ b <= Len(s) /\ s[b] = 46
          /\ c > b + 1
       THEN c ELSE 0

\* re.search(r'(\d+\.\d+\.\d+)', url): <<>> for no match, else <<group 1>>.
VersionSearch(url) ==
    LET starts == {i \in 1..Len(url) : VersionEnd(url, i) > 0}
    IN IF starts = {} THEN <<>>
       ELSE LET i == CHOOSE j \in starts : \A k \in starts : j <= k
            IN <<SubSeq(url, i, VersionEnd(url, i) - 1)>>

\* version.lstrip('v')
RECURSIVE LStripV(_)
LStripV(s) == IF s # <<>> /\ Head(s) = 118 THEN LStripV(Tail(s)) ELSE s

\* The placeholder "X.Y.Z".
VersionPlaceholder == <<88, 46, 89, 46, 90>>

\* The text "[MongoDB {version} Community Edition]({url})", shortened to the
\* parts that vary; the order of two such texts is the order of the originals.
MongoLink(version, url) == version \o <<32>> \o url \o <<41>>

\* generate_mongo_intro: "" (the empty sequence) or the intro block.
generate_mongo_intro(urls_raw, version) ==
    IF urls_raw = <<>> \/ Strip(urls_raw) = <<>> THEN <<>>
    ELSE LET urls == FilterNoneSet(ReSplit(urls_raw))
             hit == {u \in urls : VersionSearch(u) # <<>>}
             mongo_links == Sorted({MongoLink(VersionSearch(u)[1], u) : u \in hit})
             versions == SortedList(LET o == Sorted(hit)
                                    IN [i \in 1..Len(o) |-> VersionSearch(o[i])[1]])
             display_version == IF version # <<>> THEN LStripV(version)
                                ELSE VersionPlaceholder
         IN IF hit = {} THEN <<>>
            ELSE <<Line("intro", "intro", display_version,
                        JoinWith(mongo_links, <<44, 32>>) \o <<10>>
                        \o JoinWith(versions, <<32>>))>>

\* url.split('/')[-1]
RECURSIVE LastSegment(_)
LastSegment(url) ==
    IF url = <<>> THEN <<>>
    ELSE IF url[Len(url)] = 47 THEN <<>>
    ELSE Append(LastSegment(SubSeq(url, 1, Len(url) - 1)), url[Len(url)])

\* What scraping one upstream bug page can give: a RequestException, a page
\* without the summary or description element, or both texts (and what the
\* summarizer's API call then does).
PageTitle == <<80>>
ScrapeOutcomes ==
    {[res |-> r, title |-> <<>>, description |-> <<>>, ai |-> AiError] :
        r \in {"error", "noelem"}}
    \cup {[res |-> "ok", title |-> PageTitle, description |-> <<>>, ai |-> AiError]}
    \cup {[res |-> "ok", title |-> PageTitle, description |-> <<100>>, ai |-> a] :
            a \in AiOutcomes}

\* The loop of process_upstream_bugs over bug_urls (in the order the set
\* iterates): the summarized_bugs lines.
RECURSIVE SummarizedBugs(_, _)
SummarizedBugs(order, outcomes) ==
    IF order = <<>> THEN <<>>
    ELSE LET o == Head(outcomes)
         IN (IF o.res = "ok"
             THEN <<Line("bug", "bug", LastSegment(Head(order)),
                         get_summary_from_ai(o.title, o.description, o.ai).summary)>>
             ELSE <<>>)
            \o SummarizedBugs(Tail(order), Tail(outcomes))

\* The summarizer calls made by that loop.
RECURSIVE UpstreamAiLog(_)
UpstreamAiLog(outcomes) ==
    IF outcomes = <<>> THEN <<>>
    ELSE LET o == Head(outcomes)
         IN (IF o.res = "ok" THEN <<AiEntry(o.title, o.description, o.ai)>> ELSE <<>>)
            \o UpstreamAiLog(Tail(outcomes))

\* The placeholder "version".
VersionWord == <<118, 101, 114, 115, 105, 111, 110>>

\* process_upstream_bugs: "" (the empty sequence) or the lines of the block.
\* order lists the set bug_urls as the loop meets it; outcomes[i] is what
\* scraping order[i] gives.
process_upstream_bugs(bug_urls_raw, release_urls_raw, order, outcomes) ==
    IF bug_urls_raw = <<>> \/ Strip(bug_urls_raw) = <<>> THEN <<>>
    ELSE LET summarized_bugs == SummarizedBugs(order, outcomes)
             release_urls == Sorted(FilterNoneSet(ReSplit(release_urls_raw)))
             release_links ==
                 [i \in 1..Len(release_urls) |->
                     LET m == VersionSearch(release_urls[i])
                     IN Line("release_link", "release_link",
                             IF m # <<>> THEN m[1] ELSE VersionWord,
                             release_urls[i])]
         IN IF summarized_bugs = <<>> THEN <<>>
            ELSE <<Header("Upstream Improvements"), Text("upstream_lead")>>
                 \o summarized_bugs
                 \o (IF release_urls # <<>>
                     THEN <<Text("release_notes_lead")>> \o release_links
                     ELSE <<>>)

\* The orders in which a set can be iterated.
Orders(S) ==
    {o \in [1..Cardinality(S) -> S] : \A i, j \in 1..Cardinality(S) : i # j => o[i] # o[j]}

\* ------------------------------------------------ classifier, assembler

\* The fixed lookup from issue-type name to bucket.
ISSUE_TYPE_MAP ==
    [t \in {"Story", "New Feature", "Improvement", "Epic", "Bug", "Defect",
            "Task", "Sub-task", "Chore", "Technical Debt"} |->
        IF t \in {"Story", "New Feature", "Improvement", "Epic"} THEN "features"
        ELSE IF t \in {"Bug", "Defect"} THEN "fixes"
        ELSE "maintenance"]

\* ticket.get("fields", {}).get("issuetype", {}).get("name", "Task")
IssueTypeOf(ticket) ==
    Get(Get(Get(ticket, "fields", <<>>), "issuetype", <<>>), "name", "Task")

\* The lookup with "features" as the default bucket.
CategoryDefaultFeatures(ticket) ==
    LET issue_type == IssueTypeOf(ticket)
    IN IF issue_type \in DOMAIN ISSUE_TYPE_MAP THEN ISSUE_TYPE_MAP[issue_type]
       ELSE "features"

\* ISSUE_TYPE_MAP.get(issue_type, "maintenance")
Category(ticket) ==
    LET issue_type == IssueTypeOf(ticket)
    IN IF issue_type \in DOMAIN ISSUE_TYPE_MAP THEN ISSUE_TYPE_MAP[issue_type]
       ELSE "maintenance"

\* The loop with each ticket inserted at the front of its bucket.
RECURSIVE CategorizePrepend(_, _)
CategorizePrepend(tickets, categories) ==
    IF tickets = <<>> THEN categories
    ELSE CategorizePrepend(Tail(tickets),
                           [categories EXCEPT ![Category(Head(tickets))] =
                               <<Head(tickets)>> \o @])

\* The loop that fills categories: each ticket appended to its bucket.
RECURSIVE Categorize(_, _)
Categorize(tickets, categories) ==
    IF tickets = <<>> THEN categories
    ELSE Categorize(Tail(tickets),
                    [categories EXCEPT ![Category(Head(tickets))] =
                        Append(@, Head(tickets))])

\* section_map, in the order its items are iterated.
SectionOrder == <<"features", "fixes", "maintenance">>

section_map ==
    [c \in {"features", "fixes", "maintenance"} |->
        IF c = "features" THEN "New Features & Enhancements"
        ELSE IF c = "fixes" THEN "Bug Fixes"
        ELSE "Technical & Maintenance"]

\* The line "- [key](https://domain/browse/key): summary" of one ticket.
TicketLine(ticket) ==
    Line("ticket", "ticket", ticket["key"], ticket["releaseNoteSummary"])

\* The section emitted whether or not its bucket is empty.
SectionLinesAlways(category, bucket) ==
    <<Header(section_map[category])>>
    \o [i \in 1..Len(bucket) |-> TicketLine(bucket[i])]
    \o <<Line("blank", "", <<>>, <<>>)>>

\* The lines one category contributes: nothing when its bucket is empty.
SectionLines(category, bucket) ==
    IF bucket = <<>> THEN <<>>
    ELSE <<Header(section_map[category])>>
         \o [i \in 1..Len(bucket) |-> TicketLine(bucket[i])]
         \o <<Line("blank", "", <<>>, <<>>)>>

\* The loop over section_map.items().
RECURSIVE Sections(_, _)
Sections(order, categories) ==
    IF order = <<>> THEN <<>>
    ELSE SectionLines(Head(order), categories[Head(order)])
         \o Sections(Tail(order), categories)

\* generate_final_markdown: md_lines before the final join.  None and ""
\* are both the empty sequence.
generate_final_markdown(mongo_intro, release_highlights, upstream_section, tickets, version, codename) ==
    LET categories == Categorize(tickets,
                        [c \in {"features", "fixes", "maintenance"} |-> <<>>])
    IN (IF mongo_intro # <<>> THEN mongo_intro \o <<Separator>> ELSE <<>>)
       \o (IF release_highlights # <<>> /\ Strip(release_highlights) # <<>>
           THEN <<Header("Release Highlights"), Text("highlights_lead"),
                  Line("highlights", "highlights", <<>>, release_highlights),
                  Separator>>
           ELSE <<>>)
       \o (IF upstream_section # <<>> THEN upstream_section \o <<Separator>> ELSE <<>>)
       \o <<Line("title", IF version # <<>> THEN "Release" ELSE "Release Notes",
                 version, codename),
            Text("released_on"), Separator>>
       \o Sections(SectionOrder, categories)

\* --------------------------------------------------------------- state

VARIABLES
    settings,   \* db.settings: <<>> or <<the global_settings document>>
    releases,   \* db.releases: release id -> document
    nextId,     \* the next id the store assigns (ids are never reused)
    jira,       \* the issue tracker: ticket key -> the fields of the issue
    g,          \* the locals of the generate request in progress (or last finished)
    resp,       \* the response to the last request answered by a CRUD handler
    lastPost    \* <<>> or <<the body of the most recent POST /api/settings>>

vars == <<settings, releases, nextId, jira, g, resp, lastPost>>

\* The locals of generate_release_notes before its first statement.  Beside
\* the locals of the code, g records what the request exchanged with its
\* collaborators: scraped (the outcome of each page scrape), fetched (the keys
\* passed to fetch_jira_ticket), ok (whether each fetch gave a ticket) and
\* aiLog (the calls of get_summary_from_ai); status is the HTTP status returned.
GStart ==
    [pc |-> "idle", id |-> 0, status |-> 0, settings |-> <<>>, release |-> <<>>,
     mongo_intro |-> <<>>, scraped |-> <<>>, upstream_section |-> <<>>,
     ticket_keys |-> <<>>, fetched |-> <<>>, ok |-> <<>>,
     tickets_with_summaries |-> <<>>, aiLog |-> <<>>, markdown_output |-> <<>>]

\* What the model keeps of a response: the handler, the release id it names
\* (0 for none), the status, and the body of a settings read.
Response(op, id, status, body) == [op |-> op, id |-> id, status |-> status, body |-> body]

\* -------------------------------------------------------- CRUD handlers

\* POST /api/settings
PostSettings(data) ==
    /\ settings' = UpsertSettings(settings, data)
    /\ lastPost' = <<data>>
    /\ resp' = Response("POST_settings", 0, 200, <<>>)
    /\ UNCHANGED <<releases, nextId, jira, g>>

\* GET /api/settings: jsonify(settings_data or {}), the _id field left out.
GetSettings ==
    /\ resp' = Response("GET_settings", 0, 200,
                        IF settings = <<>> THEN <<>> ELSE settings[1])
    /\ UNCHANGED <<settings, releases, nextId, jira, g, lastPost>>

\* POST /api/releases: created_at is the time of insertion.
PostRelease(data) ==
    /\ nextId <= MaxReleases
    /\ releases' = InsertOne(releases, nextId, SetFields(data, [created_at |-> nextId]))
    /\ nextId' = nextId + 1
    /\ resp' = Response("POST_releases", nextId, 201, <<>>)
    /\ UNCHANGED <<settings, jira, g, lastPost>>

\* GET /api/releases/<release_id>
GetRelease(id) ==
    /\ resp' = IF FindOne(releases, id) # <<>>
               THEN Response("GET_release", id, 200, <<>>)
               ELSE Response("GET_release", id, 404, <<>>)
    /\ UNCHANGED <<settings, releases, nextId, jira, g, lastPost>>

\* PUT /api/releases/<release_id>
PutRelease(id, data) ==
    /\ releases' = UpdateOne(releases, id, data)
    /\ resp' = Response("PUT_release", 0, 200, <<>>)
    /\ UNCHANGED <<settings, nextId, jira, g, lastPost>>

\* DELETE /api/releases/<release_id>
DeleteRelease(id) ==
    /\ releases' = DeleteOne(releases, id)
    /\ resp' = Response("DELETE_release", 0, 200, <<>>)
    /\ UNCHANGED <<settings, nextId, jira, g, lastPost>>

\* ------------------------------------------------------------- generate

\* all([domain, email, token])
SettingsComplete(doc) ==
    Truthy(doc, "jiraUrl") /\ Truthy(doc, "jiraEmail") /\ Truthy(doc, "jiraToken")

\* fetch_jira_ticket for an already upper-cased key: <<>> for None (a
\* RequestException: no connection, or the tracker answers with an error
\* status such as 404 for a key it does not hold), else <<the issue's json>>.
fetch_jira_ticket(tracker, key, net) ==
    IF net = "error" \/ key \notin DOMAIN tracker THEN <<>>
    ELSE <<[key |-> key, fields |-> tracker[key]]>>

\* The default "No title" of a ticket without a summary.
NoTitle == <<78, 111, 32, 116, 105, 116, 108, 101>>

\* The body of the loop over ticket_keys for one fetched ticket_info:
\* tickets_with_summaries afterwards.
AppendTicket(tickets, ticket_info, ai) ==
    IF ticket_info = <<>> THEN tickets
    ELSE LET info == ticket_info[1]
             title == Get(Get(info, "fields", <<>>), "summary", NoTitle)
             description_text ==
                 parse_jira_description(Get(Get(info, "fields", <<>>), "description", <<>>))
             summary == get_summary_from_ai(title, description_text, ai).summary
         IN Append(tickets, SetFields(info, [releaseNoteSummary |-> summary]))

\* The summarizer call of that loop body, if the body runs.
TicketAiLog(ticket_info, ai) ==
    IF ticket_info = <<>> THEN <<>>
    ELSE LET info == ticket_info[1]
             title == Get(Get(info, "fields", <<>>), "summary", NoTitle)
             description_text ==
                 parse_jira_description(Get(Get(info, "fields", <<>>), "description", <<>>))
         IN <<AiEntry(title, description_text, ai)>>

\* The test without its "and ticket_keys".
NoTicketDataIgnoringKeys(tickets, ticket_keys) == tickets = <<>>

\* The test taking any failed fetch as fatal.
NoTicketDataAnyFailure(tickets, ticket_keys) == Len(tickets) < Len(ticket_keys)

\* not tickets_with_summaries and ticket_keys
NoTicketData(tickets, ticket_keys) == tickets = <<>> /\ ticket_keys # <<>>

\* The persist as a replacement of the whole document.
PersistByReplace(coll, id, markdown_output) ==
    IF id \in DOMAIN coll
    THEN [coll EXCEPT ![id] = [generatedMarkdown |-> markdown_output]]
    ELSE coll

\* update_one({'_id': oid}, {'$set': {'generatedMarkdown': markdown_output}})
PersistMarkdown(coll, id, markdown_output) ==
    UpdateOne(coll, id, [generatedMarkdown |-> markdown_output])

\* generate_release_notes, first store read: the settings document.
GenReadSettings(id) ==
    /\ g.pc \in {"idle", "done"}
    /\ g' = [GStart EXCEPT !.pc = "read", !.id = id,
                           !.settings = IF settings = <<>> THEN <<>> ELSE settings[1]]
    /\ UNCHANGED <<settings, releases, nextId, jira, resp, lastPost>>

\* generate_release_notes from the second store read up to the ticket loop:
\* the 404 and the settings 400, the intro, the upstream block, the keys.
GenReadRelease ==
    /\ g.pc = "read"
    /\ LET release == FindOne(releases, g.id)
       IN IF release = <<>>
          THEN g' = [g EXCEPT !.pc = "done", !.status = 404]
          ELSE IF ~SettingsComplete(g.settings)
          THEN g' = [g EXCEPT !.pc = "done", !.status = 400, !.release = release]
          ELSE LET r == release[1]
                   bug_urls_raw == Get(r, "upstreamBugUrls", <<>>)
                   bug_urls == FilterNoneSet(ReSplit(bug_urls_raw))
               IN \E order \in Orders(bug_urls) :
                  \E outcomes \in [1..Cardinality(bug_urls) -> ScrapeOutcomes] :
                     g' = [g EXCEPT
                             !.pc = "fetch",
                             !.release = release,
                             !.mongo_intro =
                                 generate_mongo_intro(Get(r, "upstreamUrls", <<>>),
                                                    Get(r, "version", <<>>)),
                             !.scraped = outcomes,
                             !.upstream_section =
                                 process_upstream_bugs(bug_urls_raw,
                                                     Get(r, "upstreamUrls", <<>>),
                                                     order, outcomes),
                             !.aiLog = UpstreamAiLog(outcomes),
                             !.ticket_keys = TicketKeys(Get(r, "jiraTickets", <<>>))]
    /\ UNCHANGED <<settings, releases, nextId, jira, resp, lastPost>>

\* One iteration of the loop over ticket_keys.
GenFetch ==
    /\ g.pc = "fetch"
    /\ Len(g.fetched) < Len(g.ticket_keys)
    /\ LET key == Upper(g.ticket_keys[Len(g.fetched) + 1])
       IN \E net \in {"ok", "error"}, ai \in AiOutcomes :
            LET ticket_info == fetch_jira_ticket(jira, key, net)
            IN g' = [g EXCEPT
                       !.fetched = Append(@, key),
                       !.ok = Append(@, ticket_info # <<>>),
                       !.tickets_with_summaries = AppendTicket(@, ticket_info, ai),
                       !.aiLog = @ \o TicketAiLog(ticket_info, ai)]
    /\ UNCHANGED <<settings, releases, nextId, jira, resp, lastPost>>

\* After the loop: the 400 for no ticket data, or assemble, persist, 200.
GenFinish ==
    /\ g.pc = "fetch"
    /\ Len(g.fetched) = Len(g.ticket_keys)
    /\ IF NoTicketData(g.tickets_with_summaries, g.ticket_keys)
       THEN /\ g' = [g EXCEPT !.pc = "done", !.status = 400]
            /\ UNCHANGED releases
       ELSE LET r == g.release[1]
                markdown_output ==
                    generate_final_markdown(g.mongo_intro,
                                          Get(r, "releaseHighlights", <<>>),
                                          g.upstream_section,
                                          g.tickets_with_summaries,
                                          Get(r, "version", <<>>),
                                          Get(r, "codename", <<>>))
            IN /\ releases' = PersistMarkdown(releases, g.id, markdown_output)
               /\ g' = [g EXCEPT !.pc = "done", !.status = 200,
                                 !.markdown_output = markdown_output]
    /\ UNCHANGED <<settings, nextId, jira, resp, lastPost>>


\* --------------------------------------------------------------- inputs

\* Settings bodies a client posts: all four fields, and the token alone, emptied.
FullSettings ==
    [jiraUrl |-> <<106>>, jiraEmail |-> <<101>>, jiraToken |-> <<116>>,
     geminiToken |-> <<103>>]
SettingsInputs == {FullSettings, [jiraToken |-> <<>>]}

\* Issue fields the tracker can hold.
Fields(summary, type) == [summary |-> summary, issuetype |-> [name |-> type]]
PlainFields == Fields(<<84>>, "Task")

\* Rich-text descriptions: one blank text leaf, and nested text leaves.
BlankDescription ==
    [type |-> "doc", content |-> <<[type |-> "paragraph",
                                   content |-> <<[type |-> "text", text |-> <<32>>]>>]>>]
NestedDescription ==
    [type |-> "doc",
     content |-> <<[type |-> "paragraph",
                    content |-> <<[type |-> "text", text |-> <<120>>],
                                  [type |-> "hardBreak"]>>],
                   [type |-> "text", text |-> <<121>>]>>]

\* Release bodies a client posts and puts against the store.
ReleaseInputs ==
    {[version |-> <<49>>, releaseHighlights |-> <<72>>, jiraTickets |-> <<97>>],
     [jiraTickets |-> <<>>]}
PutInputs == {[jiraTickets |-> <<67>>, releaseHighlights |-> <<32>>]}

\* The tracker the store-level runs talk to: it holds A and B, not C.
SmallTracker ==
    [k \in {<<65>>, <<66>>} |-> IF k = <<65>> THEN Fields(<<84>>, "Bug")
                                 ELSE Fields(<<85>>, "Story")]

Ids == 1..MaxReleases

\* ---------------------------------------------------- the service (Spec)

Init ==
    /\ settings = <<>>
    /\ releases = <<>>
    /\ nextId = 1
    /\ jira = SmallTracker
    /\ g = GStart
    /\ resp = Response("none", 0, 0, <<>>)
    /\ lastPost = <<>>

Next ==
    \/ \E data \in SettingsInputs : PostSettings(data)
    \/ GetSettings
    \/ \E data \in ReleaseInputs : PostRelease(data)
    \/ \E id \in Ids : GetRelease(id)
    \/ \E id \in Ids, data \in PutInputs : PutRelease(id, data)
    \/ \E id \in Ids : DeleteRelease(id)
    \/ \E id \in Ids : GenReadSettings(id)
    \/ GenReadRelease
    \/ GenFetch
    \/ GenFinish

Spec == Init /\ [][Next]_vars

\* ------------------------------------- one generate request (SpecGen)

\* The characters of the enumerated jiraTickets strings: A, a, B, comma, space.
KeyAlphabet == {65, 97, 66, 44, 32}

AllStrings == UNION {[1..n -> KeyAlphabet] : n \in 0..MaxLen}

\* "ABC-2, abc-1,,ABC-2"
ExampleTickets ==
    <<65, 66, 67, 45, 50, 44, 32, 97, 98, 99, 45, 49, 44, 44, 65, 66, 67, 45, 50>>

\* "B a C A"
FourTickets == <<66, 32, 97, 32, 67, 32, 65>>

\* The keys a jiraTickets string asks the tracker for.
AskedKeys(raw) == {Upper(k) : k \in FilterNoneSet(ReSplit(raw))}

IssueTypeNames ==
    {"Story", "New Feature", "Improvement", "Epic", "Bug", "Defect", "Task",
     "Sub-task", "Chore", "Technical Debt", "Spike"}

\* Issues of every type, without a type, with the descriptions, without a title.
RichFields ==
    {Fields(<<84>>, t) : t \in IssueTypeNames}
    \cup {[summary |-> <<84>>]}
    \cup {SetFields(Fields(<<84>>, "Bug"), [description |-> d]) :
            d \in {BlankDescription, NestedDescription}}
    \cup {[description |-> NestedDescription, issuetype |-> [name |-> "Epic"]]}

\* A stored release as POST /api/releases leaves it.
Stored(data) == SetFields(data, [created_at |-> 1])

\* The release documents and trackers one generate request is run on.
GenCases ==
    \* every short jiraTickets string, and the example, on a tracker holding each key
    {[release |-> Stored([jiraTickets |-> s]),
      tracker |-> [k \in AskedKeys(s) |-> PlainFields]] :
        s \in AllStrings \cup {ExampleTickets}}
    \* two tickets of every kind of issue
    \cup {[release |-> Stored([jiraTickets |-> <<66, 44, 97>>, version |-> <<118, 49>>]),
           tracker |-> t] : t \in [{<<65>>, <<66>>} -> RichFields]}
    \* four keys, three issues, bugs and stories
    \cup {[release |-> Stored([jiraTickets |-> FourTickets]), tracker |-> t] :
            t \in [AskedKeys(FourTickets) ->
                     {Fields(<<84>>, "Bug"), Fields(<<85>>, "Story")}]}
    \* the optional sections
    \cup {[release |-> Stored(SetFields(h, SetFields(b, SetFields(u, j)))),
           tracker |-> SmallTracker] :
            h \in {[codename |-> <<67>>], [releaseHighlights |-> <<>>],
                   [releaseHighlights |-> <<32, 10>>], [releaseHighlights |-> <<72>>]},
            b \in {[version |-> <<>>], [upstreamBugUrls |-> <<32>>],
                   [upstreamBugUrls |-> <<117, 47, 55>>],
                   [upstreamBugUrls |-> <<117, 47, 55, 10, 117, 47, 56>>]},
            u \in {[upstreamUrls |-> <<>>],
                   [upstreamUrls |-> <<114, 47, 54, 46, 48, 46, 53, 44, 120>>]},
            j \in {[jiraTickets |-> <<>>], [jiraTickets |-> <<97>>]}}

InitGen ==
    \E c \in GenCases :
        /\ settings = <<FullSettings>>
        /\ releases = InsertOne(<<>>, 1, c.release)
        /\ nextId = 2
        /\ jira = c.tracker
        /\ g = GStart
        /\ resp = Response("none", 0, 0, <<>>)
        /\ lastPost = <<FullSettings>>

NextGen ==
    \/ g.pc = "idle" /\ GenReadSettings(1)
    \/ GenReadRelease
    \/ GenFetch
    \/ GenFinish

SpecGen == InitGen /\ [][NextGen]_vars

\* ----------------------------------------------------------- properties

\* The generate request has returned.
Done == g.pc = "done"

\* The stored release a finished request worked on.
ReleaseOf == g.release[1]

Indices(seq) == 1..Len(seq)

\* The ticket keys of the ticket lines of a markdown, in order.
TicketRefs(md) ==
    LET lines == SelectSeq(md, LAMBDA l : l.kind = "ticket")
    IN [i \in Indices(lines) |-> lines[i].ref]

\* How many times x occurs in seq.
Count(seq, x) == Cardinality({i \in Indices(seq) : seq[i] = x})

HeaderAt(md, name) == {i \in Indices(md) : md[i] = Header(name)}

\* The ticket keys listed under the header name, up to the blank line that
\* closes the section; empty when the header is absent.
SectionRefs(md, name) ==
    IF HeaderAt(md, name) = {} THEN <<>>
    ELSE LET h == CHOOSE i \in HeaderAt(md, name) : TRUE
             e == CHOOSE j \in (h + 1)..Len(md) :
                     /\ md[j].kind = "blank"
                     /\ \A k \in (h + 1)..(j - 1) : md[k].kind # "blank"
         IN [k \in 1..(e - h - 1) |-> md[h + k].ref]

\* The bucket the specification's lookup table gives an issue-type name.
SpecBucket(type) ==
    IF type \in {"Story", "New Feature", "Improvement", "Epic"} THEN "features"
    ELSE IF type \in {"Bug", "Defect"} THEN "fixes"
    ELSE "maintenance"

\* The bucket of the issue the tracker holds under key; an issue without an
\* issue type counts as unrecognised.
BucketOfKey(key) ==
    IF "issuetype" \in DOMAIN jira[key] THEN SpecBucket(jira[key]["issuetype"]["name"])
    ELSE "maintenance"

\* The keys whose fetch succeeded and whose issue falls into bucket, in the
\* order they were fetched.
RECURSIVE FetchedInto(_, _, _)
FetchedInto(bucket, fetched, ok) ==
    IF fetched = <<>> THEN <<>>
    ELSE (IF Head(ok) /\ BucketOfKey(Head(fetched)) = bucket
          THEN <<Head(fetched)>> ELSE <<>>)
         \o FetchedInto(bucket, Tail(fetched), Tail(ok))

Buckets == {"features", "fixes", "maintenance"}

\* C2: the keys passed to the ticket fetcher are upper-cased, none is blank,
\* none occurs twice, they ascend lexicographically, and for the input
\* "ABC-2, abc-1,,ABC-2" they are exactly ABC-1 then ABC-2.
C2_FetchedKeysNormalised ==
    Done =>
        /\ \A i \in Indices(g.fetched) :
              g.fetched[i] # <<>> /\ Upper(g.fetched[i]) = g.fetched[i]
        /\ \A i, j \in Indices(g.fetched) : i < j => StrLess(g.fetched[i], g.fetched[j])
        /\ (Get(ReleaseOf, "jiraTickets", <<>>) = ExampleTickets =>
              g.fetched = <<<<65, 66, 67, 45, 49>>, <<65, 66, 67, 45, 50>>>>)

\* C3: a GET /api/settings returns exactly the key/value pairs of the most
\* recent POST /api/settings, and no key only an earlier POST submitted.
C3_GetReturnsLastPost ==
    (resp.op = "GET_settings" /\ lastPost # <<>>) => resp.body = lastPost[1]

\* C5: the summarizer returns the title without an API call for a blank
\* description, the title when the call fails, the title when the returned
\* text is empty after trimming, and the trimmed text otherwise; for a
\* non-empty title the result is never empty.
C5_SummaryFallsBackToTitle ==
    \A i \in Indices(g.aiLog) :
        LET e == g.aiLog[i]
            blank == \A k \in Indices(e.description) : e.description[k] \in Whitespace
        IN /\ blank => (e.summary = e.title /\ ~e.called)
           /\ (~blank /\ e.ai.err) => e.summary = e.title
           /\ (~blank /\ ~e.ai.err /\ Strip(e.ai.text) = <<>>) => e.summary = e.title
           /\ (~blank /\ ~e.ai.err /\ Strip(e.ai.text) # <<>>) =>
                 e.summary = Strip(e.ai.text)
           /\ e.title # <<>> => e.summary # <<>>

\* A required issue-tracker setting is missing or empty.
MissingSetting(doc) ==
    \E k \in {"jiraUrl", "jiraEmail", "jiraToken"} : k \notin DOMAIN doc \/ doc[k] = <<>>

\* The jiraTickets string holds at least one ticket key.
KeySupplied(raw) == \E i \in Indices(raw) : ~IsSep(raw[i])

\* C1: generate answers 404 when the release does not exist, otherwise 400
\* when an issue-tracker setting is missing or empty, otherwise 400 when a
\* key was supplied and every fetch failed, otherwise 200.
C1_GenerateStatus ==
    [][(g.pc # "done" /\ g'.pc = "done") =>
          g'.status =
             IF g.pc = "read" /\ g.id \notin DOMAIN releases THEN 404
             ELSE IF MissingSetting(g'.settings) THEN 400
             ELSE IF /\ KeySupplied(Get(g'.release[1], "jiraTickets", <<>>))
                     /\ \A i \in Indices(g'.ok) : ~g'.ok[i]
                  THEN 400
             ELSE 200]_vars

\* C1 witness: keys were supplied, the settings are complete, and every
\* fetch failed: the request was answered 400.
C1_Witness ==
    /\ Done /\ g.status = 400
    /\ ~MissingSetting(g.settings)
    /\ g.ok # <<>>

\* C4: when some fetches fail and at least one succeeds the answer is 200 and
\* the ticket lines are exactly the successful fetches, one line each.
C4_PartialFailuresSkipped ==
    (Done /\ (\E i \in Indices(g.ok) : g.ok[i]) /\ (\E i \in Indices(g.ok) : ~g.ok[i])) =>
        /\ g.status = 200
        /\ Len(TicketRefs(g.markdown_output)) =
              Cardinality({i \in Indices(g.ok) : g.ok[i]})
        /\ \A i \in Indices(g.fetched) :
              Count(TicketRefs(g.markdown_output), g.fetched[i]) =
                 Cardinality({j \in Indices(g.fetched) :
                                 g.ok[j] /\ g.fetched[j] = g.fetched[i]})

\* C4 witness: a 200 after one fetch succeeded and another failed.
C4_Witness ==
    /\ Done /\ g.status = 200
    /\ \E i, j \in Indices(g.ok) : g.ok[i] /\ ~g.ok[j]

\* The bucket the specification's table gives a fetched ticket.
SpecBucketOf(ticket) ==
    IF "issuetype" \in DOMAIN ticket["fields"]
    THEN SpecBucket(ticket["fields"]["issuetype"]["name"])
    ELSE "maintenance"

\* C6: every fetched ticket is listed once, under the header of the bucket
\* the fixed lookup gives its issue type; unrecognised and missing issue
\* types go to maintenance.
C6_Classification ==
    (Done /\ g.status = 200) =>
        LET md == g.markdown_output
            T == g.tickets_with_summaries
        IN /\ Len(TicketRefs(md)) = Len(T)
           /\ \A b \in Buckets : \A i \in Indices(T) :
                 Count(SectionRefs(md, section_map[b]), T[i]["key"]) =
                    Cardinality({j \in Indices(T) :
                                    T[j]["key"] = T[i]["key"] /\ SpecBucketOf(T[j]) = b})

\* C6 witness: a 200 with a ticket of the unknown type Spike and a Bug.
C6_Witness ==
    /\ Done /\ g.status = 200
    /\ \E i, j \in Indices(g.tickets_with_summaries) :
          /\ IssueTypeOf(g.tickets_with_summaries[i]) = "Spike"
          /\ IssueTypeOf(g.tickets_with_summaries[j]) = "Bug"

\* C7: a section header is in the markdown exactly when the section has
\* content, and every header has content under it.
C7_NoEmptySections ==
    (Done /\ g.status = 200) =>
        LET md == g.markdown_output
            highlights == Get(ReleaseOf, "releaseHighlights", <<>>)
        IN /\ HeaderAt(md, "Release Highlights") # {} <=>
                 \E k \in Indices(highlights) : highlights[k] \notin Whitespace
           /\ HeaderAt(md, "Upstream Improvements") # {} <=>
                 \E i \in Indices(g.scraped) : g.scraped[i].res = "ok"
           /\ \A b \in Buckets :
                 HeaderAt(md, section_map[b]) # {} <=>
                    \E i \in Indices(g.fetched) :
                       g.ok[i] /\ BucketOfKey(g.fetched[i]) = b
           /\ \A i \in Indices(md) :
                 md[i].kind = "header" =>
                    \E j \in (i + 1)..Len(md) :
                       /\ md[j].kind \in {"highlights", "bug", "ticket"}
                       /\ \A k \in (i + 1)..(j - 1) : md[k].kind = "text"

\* C7 witness: whitespace-only highlights, an upstream block, a fixes
\* section and no features section.
C7_Witness ==
    /\ Done /\ g.status = 200
    /\ Get(ReleaseOf, "releaseHighlights", <<>>) = <<32, 10>>
    /\ HeaderAt(g.markdown_output, "Upstream Improvements") # {}
    /\ HeaderAt(g.markdown_output, section_map["fixes"]) # {}
    /\ HeaderAt(g.markdown_output, section_map["features"]) = {}

\* The ticket keys written in a jiraTickets string: its maximal runs of
\* characters that are not separators.
Tokens(raw) ==
    {SubSeq(raw, a, b) : <<a, b>> \in
        {<<a, b>> \in Indices(raw) \X Indices(raw) :
            /\ a <= b
            /\ \A k \in a..b : ~IsSep(raw[k])
            /\ (a = 1 \/ IsSep(raw[a - 1]))
            /\ (b = Len(raw) \/ IsSep(raw[b + 1]))}}

\* C8: the sections come in the order features, fixes, maintenance, and the
\* lines of each section are the tickets of its bucket in the order they
\* were processed: the order of the deduplicated, sorted key sequence.
C8_SectionOrder ==
    (Done /\ g.status = 200) =>
        LET md == g.markdown_output
            first(name) == CHOOSE i \in HeaderAt(md, name) : TRUE
            before(x, y) ==
                (HeaderAt(md, x) # {} /\ HeaderAt(md, y) # {}) => first(x) < first(y)
        IN /\ {g.ticket_keys[i] : i \in Indices(g.ticket_keys)} =
                 Tokens(Get(ReleaseOf, "jiraTickets", <<>>))
           /\ \A i, j \in Indices(g.ticket_keys) :
                 i < j => StrLess(g.ticket_keys[i], g.ticket_keys[j])
           /\ g.fetched = [i \in Indices(g.ticket_keys) |-> Upper(g.ticket_keys[i])]
           /\ \A b \in Buckets :
                 SectionRefs(md, section_map[b]) = FetchedInto(b, g.fetched, g.ok)
           /\ before("New Features & Enhancements", "Bug Fixes")
           /\ before("Bug Fixes", "Technical & Maintenance")
           /\ before("New Features & Enhancements", "Technical & Maintenance")

\* C8 witness: a features section, and two different tickets under Bug Fixes.
C8_Witness ==
    /\ Done /\ g.status = 200
    /\ HeaderAt(g.markdown_output, "New Features & Enhancements") # {}
    /\ \E i, j \in Indices(SectionRefs(g.markdown_output, "Bug Fixes")) :
          SectionRefs(g.markdown_output, "Bug Fixes")[i]
             # SectionRefs(g.markdown_output, "Bug Fixes")[j]

\* C9: a generate request changes nothing in the store unless it answers
\* 200, and then only the generatedMarkdown field of the release it targets.
C9_GenerateFrame ==
    [][g' # g =>
          /\ settings' = settings
          /\ ~(g'.pc = "done" /\ g'.status = 200) => releases' = releases
          /\ (g'.pc = "done" /\ g'.status = 200) =>
                /\ DOMAIN releases' = DOMAIN releases
                /\ \A id \in DOMAIN releases :
                      IF id # g'.id THEN releases'[id] = releases[id]
                      ELSE \A k \in (DOMAIN releases[id] \cup DOMAIN releases'[id])
                                       \ {"generatedMarkdown"} :
                              /\ k \in DOMAIN releases[id]
                              /\ k \in DOMAIN releases'[id]
                              /\ releases'[id][k] = releases[id][k]]_vars

\* C9 witness: a 200 for one of two stored releases, both with markdown.
C9_Witness ==
    /\ Done /\ g.status = 200
    /\ g.id \in DOMAIN releases
    /\ Cardinality(DOMAIN releases) = 2
    /\ \A id \in DOMAIN releases : "generatedMarkdown" \in DOMAIN releases[id]

\* The id was assigned by the store and its release has been deleted.
Deleted(id) == id < nextId /\ id \notin DOMAIN releases

\* C10: a deleted release never reappears, whatever request comes next, and
\* a GET or a generate that reads the store afterwards answers 404.
C10_DeletedStaysDeleted ==
    [][\A id \in Ids :
          Deleted(id) =>
             /\ id \notin DOMAIN releases'
             /\ (resp' # resp /\ resp'.op = "GET_release" /\ resp'.id = id) =>
                   resp'.status = 404
             /\ (g.pc = "read" /\ g.id = id /\ g' # g) =>
                   (g'.pc = "done" /\ g'.status = 404)]_vars

\* C10 witness: a generate request read the release, and the release was
\* deleted before the request persisted its result.
C10_Witness ==
    /\ g.pc = "fetch"
    /\ Deleted(g.id)

====
